---- MODULE Spec2Model ----
(***************************************************************************)
(* Model of the rescue-site backend (server.js, inline Base64 storage      *)
(* variant): the gift-card submission workflow, the chat workflow, and the *)
(* Telegram notification fan-out, over a Mongoose document store.          *)
(*                                                                         *)
(* Every HTTP request / bot command is a handler that runs from one await  *)
(* to the next.  An action below is one such segment: the store operation  *)
(* the handler awaited together with the synchronous code that follows it  *)
(* up to the next await.  The code before a handler's first await reads no *)
(* shared state, so it is part of the action of its first store operation. *)
(***************************************************************************)
EXTENDS Integers, Sequences, FiniteSets, TLC

(* ----------------------------- bounds --------------------------------- *)
\* Number of requests (HTTP or bot) issued in one run.
MaxReq == 3
\* Number of requests handled concurrently.
MaxInFlight == 2

Req == 1..MaxReq

(* ------------------------- JavaScript values -------------------------- *)
\* A JSON body field: undefined (absent), a string, or a non-string value.
Undef == [t |-> "undefined", v |-> ""]
Str(s) == [t |-> "string", v |-> s]
Num(s) == [t |-> "number", v |-> s]
Null == [t |-> "null", v |-> ""]

IsString(x) == x.t = "string"

\* JS truthiness of a body field (!x is TRUE for undefined and for "").
Truthy(x) == x.t # "undefined" /\ x.v # ""

\* Mongoose cast of a value to a String path: strings and numbers become
\* their text, undefined stays undefined.
CastString(x) == IF x.t = "undefined" THEN Undef ELSE Str(x.v)

(* ------------------------------ parseFloat ---------------------------- *)
Digits == {"0", "1", "2", "3", "4", "5", "6", "7", "8", "9"}

DigitVal(c) ==
  CASE c = "0" -> 0 [] c = "1" -> 1 [] c = "2" -> 2 [] c = "3" -> 3
    [] c = "4" -> 4 [] c = "5" -> 5 [] c = "6" -> 6 [] c = "7" -> 7
    [] c = "8" -> 8 [] c = "9" -> 9

NaN == [nan |-> TRUE, n |-> 0]
Number(n) == [nan |-> FALSE, n |-> n]

\* Length of the longest prefix of s made of digits.
RECURSIVE DigitPrefixLen(_)
DigitPrefixLen(s) ==
  IF s = <<>> \/ Head(s) \notin Digits THEN 0 ELSE 1 + DigitPrefixLen(Tail(s))

RECURSIVE DigitsValue(_, _)
DigitsValue(s, acc) ==
  IF s = <<>> THEN acc ELSE DigitsValue(Tail(s), 10 * acc + DigitVal(Head(s)))

\* parseFloat on a text given as a sequence of characters: an optional sign,
\* then the longest run of digits; anything after it is ignored; no digits
\* gives NaN.
ParseFloat(s) ==
  LET neg  == s # <<>> /\ Head(s) = "-"
      body == IF s # <<>> /\ Head(s) \in {"-", "+"} THEN Tail(s) ELSE s
      k    == DigitPrefixLen(body)
      mag  == DigitsValue(SubSeq(body, 1, k), 0)
  IN  IF k = 0 THEN NaN ELSE Number(IF neg THEN 0 - mag ELSE mag)

\* Mongoose's cast of a value to a Number path accepts every number but NaN.
CastNumberOk(x) == ~x.nan

(* --------------------------- Base64 (Buffer) -------------------------- *)
\* A Base64 character is its index 0..63 in the alphabet; Pad is '='.
Pad == 64

\* Buffer.toString('base64'): three bytes become four characters, a last
\* group of one or two bytes is padded.
RECURSIVE ToBase64(_)
ToBase64(b) ==
  IF b = <<>> THEN <<>>
  ELSE IF Len(b) = 1 THEN
    << b[1] \div 4, (b[1] % 4) * 16, Pad, Pad >>
  ELSE IF Len(b) = 2 THEN
    << b[1] \div 4, (b[1] % 4) * 16 + (b[2] \div 16), (b[2] % 16) * 4, Pad >>
  ELSE
    << b[1] \div 4, (b[1] % 4) * 16 + (b[2] \div 16),
       (b[2] % 16) * 4 + (b[3] \div 64), b[3] % 64 >>
    \o ToBase64(SubSeq(b, 4, Len(b)))

\* Buffer.from(text, 'base64'): four characters become three bytes, a
\* padded last group one or two.
RECURSIVE FromBase64(_)
FromBase64(s) ==
  IF Len(s) < 4 THEN <<>>
  ELSE LET b1 == s[1] * 4 + (s[2] \div 16)
           b2 == (s[2] % 16) * 16 + (s[3] \div 4)
           b3 == (s[3] % 4) * 64 + s[4]
       IN  IF s[3] = Pad THEN << b1 >>
           ELSE IF s[4] = Pad THEN << b1, b2 >>
           ELSE << b1, b2, b3 >> \o FromBase64(SubSeq(s, 5, Len(s)))

\* The value of a String path that holds the Base64 text of an image.
Base64Text(b) == [base64 |-> ToBase64(b)]

(* ------------------------------ inputs -------------------------------- *)
\* req.file as multer leaves it: absent, or a staged upload.
NoFile == [present |-> FALSE, bytes |-> <<>>, mimetype |-> ""]
Upload(b, m) == [present |-> TRUE, bytes |-> b, mimetype |-> m]

Names == {Str("Jane"), Undef}
SubmitEmails == {Str("jane@x.com"), Undef}
ChatEmails == {Str("jane@x.com"), Str("bob@x.com")}
\* Amount texts of the multipart form, as character sequences.
AmountTexts ==
  { <<>>, <<"2", "5">>, <<"0">>, <<"-", "5">>, <<"a", "b">> }
Files == {NoFile, Upload(<<137, 80>>, "image/png")}
Statuses == {Str("verified"), Str("rejected"), Str("bogus"), Undef}
Messages == {Str("hi"), Undef}

\* A path parameter :id is a well-formed ObjectId (here the ordinal of the
\* document it was minted for) or a text that is no ObjectId at all.
MalformedId == 0
IsObjectId(id) == id # MalformedId
IdParams == {MalformedId, 1, 2}

\* The fields of a request that a handler reads; a handler ignores the
\* fields of the other endpoints.
NoRequest ==
  [kind |-> "none", name |-> Undef, email |-> Undef, amount |-> <<>>,
   file |-> NoFile, id |-> MalformedId, status |-> Undef, message |-> Undef,
   title |-> Undef, price |-> <<>>, method |-> Undef, text |-> <<>>]

\* The complete form with each amount text, and the form with one of the
\* other required parts left out.
CompleteForm ==
  [NoRequest EXCEPT !.kind = "submit", !.name = Str("Jane"),
                    !.email = Str("jane@x.com"), !.amount = <<"2", "5">>,
                    !.file = Upload(<<137, 80>>, "image/png")]
SubmitRequests ==
  { [CompleteForm EXCEPT !.amount = a] : a \in AmountTexts }
    \cup { [CompleteForm EXCEPT !.name = n] : n \in Names }
    \cup { [CompleteForm EXCEPT !.email = e] : e \in SubmitEmails }
    \cup { [CompleteForm EXCEPT !.file = f] : f \in Files }
PutRequests ==
  { [NoRequest EXCEPT !.kind = "put", !.id = i, !.status = s] :
      i \in IdParams, s \in Statuses }
ChatRequests ==
  { [NoRequest EXCEPT !.kind = "chat", !.name = Str("Jane"), !.email = e,
                      !.message = m] :
      e \in ChatEmails, m \in Messages }
ReplyRequests ==
  { [NoRequest EXCEPT !.kind = "reply", !.id = i, !.message = m] :
      i \in IdParams, m \in Messages }
\* /reply <id> <text>: the regular expression needs a non-empty argument.
BotReplyRequests ==
  { [NoRequest EXCEPT !.kind = "botreply", !.id = i, !.message = m] :
      i \in IdParams, m \in {Str("hi"), Str("")} }

(* ------------------------------- state -------------------------------- *)
VARIABLES
  token,     \* process.env.TELEGRAM_BOT_TOKEN is set (the bot exists)
  chatId,    \* process.env.TELEGRAM_CHAT_ID is set
  subs,      \* PaymentSubmission collection, in creation order
  chats,     \* Chat collection, in creation order
  clock,     \* the store's and the server's time
  nreq,      \* requests issued so far
  req,       \* the request of each slot
  pc,        \* where each handler stands
  doc,       \* each handler's in-memory document (submission / chat)
  resp,      \* the response each request received
  uploads,   \* multer's staged files, by request
  tgfiles,   \* the /tmp/telegram_<ms>.jpg files: their <ms> and whose image
  tempPath,  \* each sendToTelegram call's tempPath, by its <ms> (0: none)
  sent,      \* messages handed to the transport (bot.sendMessage/sendPhoto)
  written,   \* requests whose store write was acknowledged
  twin,      \* two deployments fed the same requests one after the other
  twinN,     \* requests the two deployments have answered
  animals,   \* Animal collection, in creation order
  news,      \* News collection, in creation order
  settings,  \* Settings collection: the stored records, oldest first
  ran        \* the last inbound bot text and the callbacks invoked for it

siteVars == << animals, news, settings, ran >>
vars == << token, chatId, subs, chats, clock, nreq, req, pc, doc, resp,
           uploads, tgfiles, tempPath, sent, written, siteVars >>
twinVars == << twin, twinN >>

NoDoc == [_id |-> 0]
NoResp == [code |-> 0, body |-> [none |-> TRUE]]
Response(c, b) == [code |-> c, body |-> b]

\* bot && TELEGRAM_CHAT_ID
Configured == token /\ chatId

\* An answered request is closed before the event loop turns to anything
\* else.
Ready == \A r \in Req : pc[r] # "done"

\* A request is taken up while fewer than MaxInFlight are being handled.
InFlight == {r \in Req : pc[r] \notin {"idle", "done", "closed"}}
Accepting == Ready /\ nreq < MaxReq /\ Cardinality(InFlight) < MaxInFlight

\* A deployment of the twin: its transport (the bot and its destination
\* are configured and the sends succeed, or they fail, or bot or destination
\* is not configured), its store, its clock and its last response.
TransportStates == {"healthy", "failing", "unconfigured"}
Copies == {1, 2}
Deployment(t) ==
  [transport |-> t, subs |-> <<>>, chats |-> <<>>, clock |-> 1, resp |-> NoResp]

Init ==
  /\ token \in BOOLEAN
  /\ chatId \in BOOLEAN
  /\ twin = [c \in Copies |-> Deployment("healthy")]
  /\ twinN = 0
  /\ subs = <<>>
  /\ chats = <<>>
  /\ clock = 1
  /\ nreq = 0
  /\ req = [r \in Req |-> NoRequest]
  /\ pc = [r \in Req |-> "idle"]
  /\ doc = [r \in Req |-> NoDoc]
  /\ resp = [r \in Req |-> NoResp]
  /\ uploads = {}
  /\ tgfiles = {}
  /\ tempPath = [r \in Req |-> 0]
  /\ sent = {}
  /\ written = {}
  /\ animals = <<>>
  /\ news = <<>>
  /\ settings = <<>>
  /\ ran = [text |-> <<>>, outcomes |-> {}]

(* ----------------------- notification fan-out ------------------------- *)
\* What sendToTelegram does with a message before its first await: without
\* bot or destination it only logs; otherwise it hands the message to the
\* transport (bot.sendPhoto when an image comes with it, else
\* bot.sendMessage).
Notice(r, kind, id) ==
  [req |-> r, kind |-> kind, id |-> id,
   via |-> IF Configured THEN "telegram" ELSE "log"]

\* formatGiftCardForTelegram / the status text / formatChatForTelegram /
\* the reply text are built before sendToTelegram is entered; the two that
\* call a string method on a body field throw when the field is no string.
ThrowsToUpperCase(status) == ~IsString(status)
ThrowsSubstring(text) == ~IsString(text)

(* --------------------------- POST /submit-giftcard -------------------- *)
\* The check without its last operand.
MissingRequiredFieldsButFile(q) ==
  ~Truthy(q.name) \/ ~Truthy(q.email) \/ q.amount = <<>>

\* !name || !email || !amount || !req.file
MissingRequiredFields(q) ==
  ~Truthy(q.name) \/ ~Truthy(q.email) \/ q.amount = <<>> \/ ~q.file.present

\* The same document created as already verified.
NewSubmissionVerified(q, id, now) ==
  [_id |-> id,
   name |-> CastString(q.name),
   email |-> CastString(q.email),
   amount |-> ParseFloat(q.amount).n,
   note |-> Undef,
   paymentMethod |-> Str("PayPal"),
   giftCardImage |-> Base64Text(q.file.bytes),
   giftCardImageType |-> q.file.mimetype,
   status |-> Str("verified"),
   createdAt |-> now,
   updatedAt |-> now]

\* The document PaymentSubmission.create is given, completed by the schema
\* (status default, timestamps) and the store (_id).
NewSubmission(q, id, now) ==
  [_id |-> id,
   name |-> CastString(q.name),
   email |-> CastString(q.email),
   amount |-> ParseFloat(q.amount).n,
   note |-> Undef,
   paymentMethod |-> Str("PayPal"),
   giftCardImage |-> Base64Text(q.file.bytes),
   giftCardImageType |-> q.file.mimetype,
   status |-> Str("pending"),
   createdAt |-> now,
   updatedAt |-> now]

\* giftCardImage: `/api/giftcard-image/${submission._id}`
ImageUrl(id) == [url |-> "/api/giftcard-image/", id |-> id]

SubmitBody(d) ==
  [success |-> TRUE, submission |-> [d EXCEPT !.giftCardImage = ImageUrl(d._id)]]

ErrorBody(m) == [error |-> m]

\* res.status(500).json({ error: err.message }) for a rejected store call.
StoreError == Response(500, ErrorBody("store error"))

\* Date.now() when sendToTelegram names its temp file: the millisecond in
\* which a notification still being sent named its own, or a later one.
Now == {clock} \cup {tempPath[x] : x \in {y \in Req : pc[y] = "send" /\ tempPath[y] # 0}}

\* fs.writeFileSync(tempPath, buffer): the file at that path now holds this
\* image, whatever it held before.
WriteFile(files, ms, image) ==
  {f \in files : f.path # ms} \cup {[path |-> ms, image |-> image]}

\* fs.unlinkSync(tempPath): the file at that path is gone (a missing file
\* throws ENOENT, which sendToTelegram's catch logs).
Unlink(files, ms) == {f \in files : f.path # ms}

\* POST /submit-giftcard up to the end of PaymentSubmission.create and of
\* the code after it: multer stages the upload; a missing field answers
\* 400 (the staged file stays); otherwise the file is read and unlinked
\* and create is called.  create rejects when the store does (ok = FALSE)
\* or when the Number cast meets NaN, and the catch answers 500; otherwise
\* the document is stored, sendToTelegram is entered and, when it returns
\* at once, res.json answers.
Submit(q, ok) ==
  /\ Accepting
  /\ q.kind = "submit"
  /\ LET r == nreq + 1
         d == NewSubmission(q, Len(subs) + 1, clock)
     IN
     /\ nreq' = r
     /\ req' = [req EXCEPT ![r] = q]
     /\ IF MissingRequiredFields(q)
        THEN /\ resp' = [resp EXCEPT ![r] = Response(400, ErrorBody("Missing required fields"))]
             /\ pc' = [pc EXCEPT ![r] = "done"]
             /\ uploads' = IF q.file.present THEN uploads \cup {r} ELSE uploads
             /\ UNCHANGED << subs, clock, doc, tgfiles, tempPath, sent, written >>
        ELSE IF ~ok \/ ~CastNumberOk(ParseFloat(q.amount))
        THEN /\ resp' = [resp EXCEPT ![r] =
                           IF ~ok THEN StoreError
                           ELSE Response(500, ErrorBody("Cast to Number failed"))]
             /\ pc' = [pc EXCEPT ![r] = "done"]
             /\ UNCHANGED << subs, clock, doc, uploads, tgfiles, tempPath, sent, written >>
        ELSE /\ subs' = Append(subs, d)
             /\ clock' = clock + 1
             /\ written' = written \cup {r}
             /\ doc' = [doc EXCEPT ![r] = d]
             /\ sent' = sent \cup {Notice(r, "submission", d._id)}
             /\ uploads' = uploads
             /\ IF Configured
                THEN /\ \E ms \in Now :
                          /\ tgfiles' = WriteFile(tgfiles, ms, d._id)
                          /\ tempPath' = [tempPath EXCEPT ![r] = ms]
                     /\ pc' = [pc EXCEPT ![r] = "send"]
                     /\ resp' = resp
                ELSE /\ UNCHANGED << tgfiles, tempPath >>
                     /\ pc' = [pc EXCEPT ![r] = "done"]
                     /\ resp' = [resp EXCEPT ![r] = Response(200, SubmitBody(d))]
  /\ UNCHANGED << twinVars, siteVars, token, chatId, chats >>

(* ------------------------ GET /giftcard-submissions ------------------- *)
\* find().sort({ createdAt: -1 }): the documents, newest first.
RECURSIVE SortNewestFirst(_)
SortNewestFirst(ds) ==
  IF ds = {} THEN <<>>
  ELSE LET d == CHOOSE x \in ds :
                  \A y \in ds : x.createdAt > y.createdAt
                                  \/ (x.createdAt = y.createdAt /\ x._id >= y._id)
       IN  <<d>> \o SortNewestFirst(ds \ {d})

\* The payload of GET /giftcard-submissions for a store content.
ListSubmissions(coll) ==
  LET sorted == SortNewestFirst({coll[i] : i \in 1..Len(coll)})
  IN  [i \in 1..Len(sorted) |->
         [sorted[i] EXCEPT !.giftCardImage = ImageUrl(sorted[i]._id)]]

(* --------------------- PUT /giftcard-submissions/:id ------------------ *)
\* enum: ['pending', 'verified', 'rejected']
StatusEnum == {Str("pending"), Str("verified"), Str("rejected")}

\* The $set that Mongoose derives from { status }: a value is cast to the
\* String path without running the enum validator; an undefined status is
\* dropped from the update by Mongoose 6 and later and stored as null by
\* Mongoose 5 (no update at all is written as Undef).
StatusUpdates(status) ==
  IF status = Undef THEN {Undef, Null} ELSE {CastString(status)}

\* An update whose filter matches every document (updateMany semantics).
UpdateEveryStatus(coll, id, set, now) ==
  [i \in 1..Len(coll) |->
     [coll[i] EXCEPT !.status = IF set = Undef THEN @ ELSE set,
                     !.updatedAt = IF i = id THEN now ELSE @]]

\* findByIdAndUpdate(id, { status }, { new: true }) on a stored document;
\* the timestamps option refreshes updatedAt.
FindByIdAndUpdate(coll, id, set, now) ==
  [coll EXCEPT ![id] =
     [@ EXCEPT !.status = IF set = Undef THEN @ ELSE set, !.updatedAt = now]]

Exists(coll, id) == IsObjectId(id) /\ id \in 1..Len(coll)

\* PUT /giftcard-submissions/:id up to the end of findByIdAndUpdate and of
\* the code after it: an id that is no ObjectId fails the query cast and a
\* store failure rejects (catch, 500); no document answers 404; otherwise
\* the status is stored, the status text is built (status.toUpperCase())
\* and sendToTelegram is entered.
Put(q, ok) ==
  /\ Accepting
  /\ q \in PutRequests
  /\ LET r == nreq + 1 IN
     /\ nreq' = r
     /\ req' = [req EXCEPT ![r] = q]
     /\ IF ~ok \/ ~IsObjectId(q.id)
        THEN /\ resp' = [resp EXCEPT ![r] =
                           IF ~ok THEN StoreError
                           ELSE Response(500, ErrorBody("Cast to ObjectId failed"))]
             /\ pc' = [pc EXCEPT ![r] = "done"]
             /\ UNCHANGED << subs, clock, doc, sent, written >>
        ELSE IF ~Exists(subs, q.id)
        THEN /\ resp' = [resp EXCEPT ![r] = Response(404, ErrorBody("Submission not found"))]
             /\ pc' = [pc EXCEPT ![r] = "done"]
             /\ UNCHANGED << subs, clock, doc, sent, written >>
        ELSE \E set \in StatusUpdates(q.status) :
             /\ subs' = FindByIdAndUpdate(subs, q.id, set, clock)
             /\ clock' = clock + 1
             /\ written' = written \cup {r}
             /\ doc' = [doc EXCEPT ![r] = subs'[q.id]]
             /\ IF ThrowsToUpperCase(q.status)
                THEN /\ resp' = [resp EXCEPT ![r] = Response(500, ErrorBody("TypeError"))]
                     /\ pc' = [pc EXCEPT ![r] = "done"]
                     /\ sent' = sent
                ELSE /\ sent' = sent \cup {Notice(r, "status", q.id)}
                     /\ IF Configured
                        THEN /\ pc' = [pc EXCEPT ![r] = "send"]
                             /\ resp' = resp
                        ELSE /\ pc' = [pc EXCEPT ![r] = "done"]
                             /\ resp' = [resp EXCEPT ![r] = Response(200, subs'[q.id])]
  /\ UNCHANGED << twinVars, siteVars, token, chatId, chats, uploads, tgfiles, tempPath >>

(* ------------------ POST /chat, POST /chat/:id/reply, /reply ---------- *)
NewChat(q, id, now) ==
  [_id |-> id, name |-> CastString(q.name), email |-> CastString(q.email),
   messages |-> <<>>, createdAt |-> now, updatedAt |-> now]

\* A push that records every message as the admin's.
PushAsAdmin(d, sender, text, now) ==
  [d EXCEPT !.messages =
     Append(@, [sender |-> "admin", text |-> CastString(text), time |-> now])]

\* chat.messages.push({ sender, text, time: new Date() }) on the in-memory
\* document.
Push(d, sender, text, now) ==
  [d EXCEPT !.messages =
     Append(@, [sender |-> sender, text |-> CastString(text), time |-> now])]

\* Chat.findOne({ email }): the first stored conversation with that email,
\* 0 when there is none.
FindOne(coll, email) ==
  IF \E i \in 1..Len(coll) : coll[i].email = email
  THEN CHOOSE i \in 1..Len(coll) :
         /\ coll[i].email = email
         /\ \A j \in 1..(i - 1) : coll[j].email # email
  ELSE 0

\* A save that writes the whole in-memory messages array over the stored
\* one.
SaveWhole(coll, d, now) ==
  [coll EXCEPT ![d._id] = [@ EXCEPT !.messages = d.messages, !.updatedAt = now]]

\* chat.save() after a push: Mongoose sends $push of the pushed message
\* and $set of updatedAt for the stored document.
Save(coll, d, now) ==
  [coll EXCEPT ![d._id] =
     [@ EXCEPT !.messages = Append(@, d.messages[Len(d.messages)]),
               !.updatedAt = now]]

\* The in-memory document once save has resolved (save stamps updatedAt).
Saved(d, now) == [d EXCEPT !.updatedAt = now]

BotSays(text) == Response(0, [bot |-> text])

\* What a handler answers when an awaited store call rejects.
CatchResponse(q) ==
  IF q.kind = "botreply" THEN BotSays("Error sending reply.") ELSE StoreError

\* POST /chat up to the end of Chat.findOne and of the code after it: a
\* stored conversation gets the message pushed in memory and save is
\* called; without one Chat.create is called.
Chat(q, ok) ==
  /\ Accepting
  /\ q \in ChatRequests
  /\ LET r == nreq + 1
         i == FindOne(chats, CastString(q.email))
     IN
     /\ nreq' = r
     /\ req' = [req EXCEPT ![r] = q]
     /\ IF ~ok
        THEN /\ resp' = [resp EXCEPT ![r] = CatchResponse(q)]
             /\ pc' = [pc EXCEPT ![r] = "done"]
             /\ doc' = doc
        ELSE IF i = 0
        THEN /\ pc' = [pc EXCEPT ![r] = "createChat"]
             /\ UNCHANGED << doc, resp >>
        ELSE /\ pc' = [pc EXCEPT ![r] = "save"]
             /\ doc' = [doc EXCEPT ![r] = Push(chats[i], "user", q.message, clock)]
             /\ resp' = resp
  /\ UNCHANGED << twinVars, siteVars, token, chatId, subs, chats, clock, uploads, tgfiles, tempPath, sent,
                  written >>

\* Chat.create settles: the new conversation is stored with no message;
\* the message is pushed in memory and save is called.
ChatCreate(r) ==
  /\ Ready
  /\ pc[r] = "createChat"
  /\ LET d == NewChat(req[r], Len(chats) + 1, clock) IN
     /\ chats' = Append(chats, d)
     /\ doc' = [doc EXCEPT ![r] = Push(d, "user", req[r].message, clock)]
  /\ clock' = clock + 1
  /\ pc' = [pc EXCEPT ![r] = "save"]
  /\ UNCHANGED << twinVars, siteVars, token, chatId, subs, nreq, req, resp, uploads, tgfiles, tempPath,
                  sent, written >>

\* POST /chat/:id/reply and the bot's /reply <id> <text> up to the end of
\* Chat.findById and of the code after it.  The bot handler exists only
\* when the bot does, and answers a command without text with the usage
\* line before any lookup.
ReplyHandler(q, ok) ==
  /\ Accepting
  /\ q.kind \in {"reply", "botreply"}
  /\ q.kind = "botreply" => token
  /\ LET r == nreq + 1
         http == q.kind = "reply"
     IN
     /\ nreq' = r
     /\ req' = [req EXCEPT ![r] = q]
     /\ IF ~http /\ ~Truthy(q.message)
        THEN /\ resp' = [resp EXCEPT ![r] = BotSays("Usage: /reply [chat_id] [message]")]
             /\ pc' = [pc EXCEPT ![r] = "done"]
             /\ doc' = doc
        ELSE IF ~ok \/ ~IsObjectId(q.id)
        THEN /\ resp' = [resp EXCEPT ![r] =
                           IF ok /\ http
                           THEN Response(500, ErrorBody("Cast to ObjectId failed"))
                           ELSE CatchResponse(q)]
             /\ pc' = [pc EXCEPT ![r] = "done"]
             /\ doc' = doc
        ELSE IF ~Exists(chats, q.id)
        THEN /\ resp' = [resp EXCEPT ![r] =
                           IF http THEN Response(404, ErrorBody("Chat not found"))
                           ELSE BotSays("Chat not found.")]
             /\ pc' = [pc EXCEPT ![r] = "done"]
             /\ doc' = doc
        ELSE /\ doc' = [doc EXCEPT ![r] = Push(chats[q.id], "admin", q.message, clock)]
             /\ pc' = [pc EXCEPT ![r] = "save"]
             /\ resp' = resp
  /\ UNCHANGED << twinVars, animals, news, settings, token, chatId, subs, chats,
                  clock, uploads, tgfiles, tempPath, sent, written >>

\* An admin reply that arrives as POST /chat/:id/reply or as a /reply
\* command already taken apart.
Reply(q, ok) == ReplyHandler(q, ok) /\ ran' = ran

\* chat.save() settles for POST /chat, POST /chat/:id/reply and /reply; the
\* handler then builds its notification text, enters sendToTelegram and,
\* when nothing is awaited, answers.
ChatSave(r) ==
  /\ Ready
  /\ pc[r] = "save"
  /\ chats' = Save(chats, doc[r], clock)
  /\ clock' = clock + 1
  /\ written' = written \cup {r}
  /\ doc' = [doc EXCEPT ![r] = Saved(@, clock)]
  /\ LET q == req[r] IN
     IF q.kind = "botreply"
     THEN /\ resp' = [resp EXCEPT ![r] = BotSays("Reply sent")]
          /\ sent' = sent \cup {Notice(r, "reply", doc[r]._id)}
          /\ pc' = [pc EXCEPT ![r] = IF Configured THEN "send" ELSE "done"]
     ELSE IF ~Configured
     THEN /\ resp' = [resp EXCEPT ![r] = Response(200, doc'[r])]
          /\ pc' = [pc EXCEPT ![r] = "done"]
          /\ sent' = sent
     ELSE IF ThrowsSubstring(IF q.kind = "chat" THEN CastString(q.message) ELSE q.message)
     THEN /\ resp' = [resp EXCEPT ![r] = Response(500, ErrorBody("TypeError"))]
          /\ pc' = [pc EXCEPT ![r] = "done"]
          /\ sent' = sent
     ELSE /\ sent' = sent \cup {Notice(r, q.kind, doc[r]._id)}
          /\ pc' = [pc EXCEPT ![r] = "send"]
          /\ resp' = resp
  /\ UNCHANGED << twinVars, siteVars, token, chatId, subs, nreq, req, uploads, tgfiles, tempPath >>

(* ------------------------- store and transport ------------------------ *)
\* The store calls a handler awaits after its first one.
StoreAwaits ==
  {"createChat", "save", "createSettings", "createEmpty", "savePayments"}

\* A catch block that also notifies about the record it failed to write.
StoreFailsAndNotifies(r) ==
  /\ Ready
  /\ pc[r] \in StoreAwaits
  /\ resp' = [resp EXCEPT ![r] = CatchResponse(req[r])]
  /\ pc' = [pc EXCEPT ![r] = "done"]
  /\ sent' = sent \cup {Notice(r, req[r].kind, doc[r]._id)}
  /\ UNCHANGED << twinVars, siteVars, token, chatId, subs, chats, clock, nreq, req, doc,
                  uploads, tgfiles, tempPath, written >>

\* An awaited Chat.create or chat.save rejects (store unreachable, write
\* failed): the handler's catch answers; nothing is stored.
StoreFails(r) ==
  /\ Ready
  /\ pc[r] \in StoreAwaits
  /\ resp' = [resp EXCEPT ![r] = CatchResponse(req[r])]
  /\ pc' = [pc EXCEPT ![r] = "done"]
  /\ UNCHANGED << twinVars, siteVars, token, chatId, subs, chats, clock, nreq, req, doc, uploads,
                  tgfiles, tempPath, sent, written >>

\* The body each endpoint answers with once sendToTelegram has returned.
SuccessResponse(r) ==
  CASE req[r].kind = "submit" -> Response(200, SubmitBody(doc[r]))
    [] req[r].kind = "botreply" -> resp[r]
    [] OTHER -> Response(200, doc[r])

\* The transport call awaited inside sendToTelegram settles: on success the
\* photo's temp file is unlinked; a rejection is caught and logged.  Either
\* way sendToTelegram returns and the handler answers.
TransportSettles(r, ok) ==
  /\ Ready
  /\ pc[r] = "send"
  /\ tgfiles' = IF ok THEN Unlink(tgfiles, tempPath[r]) ELSE tgfiles
  /\ tempPath' = tempPath
  /\ resp' = [resp EXCEPT ![r] = SuccessResponse(r)]
  /\ pc' = [pc EXCEPT ![r] = "done"]
  /\ UNCHANGED << twinVars, siteVars, token, chatId, subs, chats, clock, nreq, req, doc, uploads,
                  sent, written >>

\* The response has gone out and the connection is closed: the handler's
\* locals are garbage.
Close(r) ==
  /\ pc[r] = "done"
  /\ pc' = [pc EXCEPT ![r] = "closed"]
  /\ req' = [req EXCEPT ![r] = NoRequest]
  /\ doc' = [doc EXCEPT ![r] = NoDoc]
  /\ resp' = [resp EXCEPT ![r] = NoResp]
  /\ sent' = {n \in sent : n.req # r}
  /\ written' = written \ {r}
  /\ tempPath' = [tempPath EXCEPT ![r] = 0]
  /\ UNCHANGED << twinVars, siteVars, token, chatId, subs, chats, clock, nreq, uploads, tgfiles >>

(* --------------------------- specification ---------------------------- *)
Next ==
  \/ \E q \in SubmitRequests, ok \in BOOLEAN : Submit(q, ok)
  \/ \E q \in PutRequests, ok \in BOOLEAN : Put(q, ok)
  \/ \E q \in ChatRequests, ok \in BOOLEAN : Chat(q, ok)
  \/ \E q \in ReplyRequests \cup BotReplyRequests, ok \in BOOLEAN : Reply(q, ok)
  \/ \E r \in Req : ChatCreate(r)
  \/ \E r \in Req : ChatSave(r)
  \/ \E r \in Req : StoreFails(r)
  \/ \E r \in Req, ok \in BOOLEAN : TransportSettles(r, ok)
  \/ \E r \in Req : Close(r)

Spec == Init /\ [][Next]_<< vars, twinVars >>

(* ------------------- fairness of the event loop ----------------------- *)
\* Node runs every continuation whose awaited store call has settled, and
\* the store client settles every call (it answers or times out); a sent
\* response is flushed.  Nothing makes a transport call settle: neither
\* sendToTelegram nor the bot client sets a timeout.
FairSpec ==
  /\ Spec
  /\ \A r \in Req : WF_<< vars, twinVars >>(ChatCreate(r) \/ ChatSave(r) \/ StoreFails(r))
  /\ \A r \in Req : WF_<< vars, twinVars >>(Close(r))

(* --------------------------- inbound bot texts ------------------------ *)
\* An inbound text as its words (the text split at single spaces).
BotTexts ==
  { <<"/start">>, <<"/help">>, <<"/chats">>, <<"/payments">>, <<"hi">>,
    <<"/reply", "1">>, <<"/reply", "1", "hi">>, <<"/reply", "abc", "hi">>,
    <<"/reply", "1", "/help">>, <<"/reply", "1", "see", "/chats">> }

\* The callbacks registered with bot.onText, in registration order.
Callbacks == <<"start", "chats", "payments", "reply", "help">>

HasWord(text, w) == \E i \in 1..Len(text) : text[i] = w

\* regexp.exec(text) of each callback's pattern.  None is anchored:
\* /\/start/, /\/chats/, /\/payments/ and /\/help/ match a text that holds
\* the keyword anywhere, /\/reply (.+)/ one that holds /reply followed by
\* a space and more text.
Matches(cb, text) ==
  CASE cb = "start" -> HasWord(text, "/start")
    [] cb = "chats" -> HasWord(text, "/chats")
    [] cb = "payments" -> HasWord(text, "/payments")
    [] cb = "help" -> HasWord(text, "/help")
    [] cb = "reply" -> \E i \in 1..(Len(text) - 1) : text[i] = "/reply"

\* The bot client tries every registered pattern on an inbound text and
\* invokes the callback of each one that matches (onlyFirstMatch is not
\* set).
Dispatch(text) ==
  {Callbacks[i] : i \in {j \in 1..Len(Callbacks) : Matches(Callbacks[j], text)}}

\* match[1].split(' '): the words after the first "/reply ".
ReplyArgs(text) ==
  LET i == CHOOSE k \in 1..(Len(text) - 1) :
             text[k] = "/reply" /\ \A j \in 1..(k - 1) : text[j] # "/reply"
  IN  SubSeq(text, i + 1, Len(text))

\* args.slice(1).join(' ') for the word lists of BotTexts.
Join(ws) ==
  CASE ws = <<>> -> ""
    [] ws = <<"hi">> -> "hi"
    [] ws = <<"/help">> -> "/help"
    [] ws = <<"see", "/chats">> -> "see /chats"

\* The path parameter a word stands for.
IdOf(w) == CASE w = "1" -> 1 [] w = "2" -> 2 [] OTHER -> MalformedId

\* replyChatId = args[0]; message = args.slice(1).join(' ')
ReplyRequest(text) ==
  [NoRequest EXCEPT !.kind = "botreply", !.text = text,
                    !.id = IdOf(ReplyArgs(text)[1]),
                    !.message = Str(Join(Tail(ReplyArgs(text))))]

\* What a callback other than /reply answers the admin with.  /chats lists
\* the last message of each conversation (text.substring throws on a
\* message stored without text, the catch answers), /payments the
\* submissions; a failed find is answered by the catch.
Says(cb, ok) ==
  CASE cb = "start" -> "Welcome to Rescue Paws Admin Bot!"
    [] cb = "help" -> "Available commands"
    [] cb = "chats" ->
         IF ~ok THEN "Error fetching chats."
         ELSE IF chats = <<>> THEN "No active chats found."
         ELSE IF \E i \in 1..Len(chats) :
                   /\ chats[i].messages # <<>>
                   /\ ~IsString(chats[i].messages[Len(chats[i].messages)].text)
              THEN "Error fetching chats."
              ELSE "Recent Chats"
    [] cb = "payments" ->
         IF ~ok THEN "Error fetching payments."
         ELSE IF subs = <<>> THEN "No gift card submissions found."
         ELSE "Recent Gift Card Submissions"
    [] cb = "reply" -> ""

\* The bot receives a text: every callback whose pattern matches is
\* invoked; the /reply callback runs as an admin reply, the others answer
\* after at most one find and leave nothing behind.
BotText(text, ok) ==
  /\ token
  /\ ran' = [text |-> text,
             outcomes |-> {[callback |-> cb, says |-> Says(cb, ok)] :
                             cb \in Dispatch(text)}]
  /\ IF "reply" \in Dispatch(text)
     THEN ReplyHandler(ReplyRequest(text), ok)
     ELSE /\ Accepting
          /\ nreq' = nreq + 1
          /\ pc' = [pc EXCEPT ![nreq + 1] = "closed"]
          /\ UNCHANGED << twinVars, animals, news, settings, token, chatId, subs,
                          chats, clock, req, doc, resp, uploads, tgfiles, tempPath, sent,
                          written >>

\* The chat endpoints and the bot's inbound texts.
BotNext ==
  \/ \E text \in BotTexts, ok \in BOOLEAN : BotText(text, ok)
  \/ \E q \in {c \in ChatRequests : c.email = Str("jane@x.com")}, ok \in BOOLEAN :
       Chat(q, ok)
  \/ \E r \in Req : ChatCreate(r)
  \/ \E r \in Req : ChatSave(r)
  \/ \E r \in Req : StoreFails(r)
  \/ \E r \in Req, ok \in BOOLEAN : TransportSettles(r, ok)
  \/ \E r \in Req : Close(r)

BotSpec == Init /\ [][BotNext]_<< vars, twinVars >>

(* ----------------- POST /animals, POST /news, image endpoints --------- *)
\* Uploaded images of one to four bytes, so that every padding of the
\* Base64 text occurs, with the content type multer reports.
Images == { <<137>>, <<137, 80>>, <<255, 216, 255>>, <<137, 80, 78, 71>> }
SiteFiles ==
  {NoFile, Upload(<<255, 216, 255>>, "image/jpeg")}
    \cup {Upload(b, "image/png") : b \in Images}
PriceTexts == { <<"2", "5">>, <<"a", "b">> }

AnimalRequests ==
  { [NoRequest EXCEPT !.kind = "animal", !.title = Str("Rex"), !.price = p,
                      !.file = f] :
      p \in PriceTexts, f \in {NoFile, Upload(<<137, 80>>, "image/png")} }
    \cup { [NoRequest EXCEPT !.kind = "animal", !.title = Str("Rex"),
                             !.price = <<"2", "5">>, !.file = f] :
             f \in SiteFiles }
NewsRequests ==
  { [NoRequest EXCEPT !.kind = "news", !.title = Str("Gala"), !.file = f] :
      f \in SiteFiles }
SiteSubmitRequests == { [CompleteForm EXCEPT !.file = f] : f \in SiteFiles }
ImageKinds == {"animalImage", "newsImage", "giftcardImage"}
ImageRequests ==
  { [NoRequest EXCEPT !.kind = k, !.id = i] : k \in ImageKinds, i \in IdParams }

\* Mongoose's cast of a form text to a Number path (Number(text)): a text
\* that is a number throughout, else NaN, which fails the cast.
ToNumber(s) ==
  LET body == IF s # <<>> /\ Head(s) \in {"-", "+"} THEN Tail(s) ELSE s
  IN  IF body # <<>> /\ DigitPrefixLen(body) = Len(body)
      THEN ParseFloat(s) ELSE NaN

\* The document Animal.create stores: animalSchema has no imageType path,
\* so strict mode drops the imageType the handler passes.
NewAnimal(q, id, now) ==
  [_id |-> id,
   title |-> CastString(q.title),
   description |-> Undef,
   price |-> ToNumber(q.price).n,
   image |-> Base64Text(q.file.bytes),
   payments |-> <<>>,
   createdAt |-> now,
   updatedAt |-> now]

\* The document News.create stores: image and imageType are null without
\* an upload (a null type is written "").
NewNews(q, id, now) ==
  [_id |-> id,
   title |-> CastString(q.title),
   content |-> Undef,
   image |-> IF q.file.present THEN Base64Text(q.file.bytes) ELSE Null,
   imageType |-> IF q.file.present THEN q.file.mimetype ELSE "",
   createdAt |-> now,
   updatedAt |-> now]

\* image: `/api/image/${animal._id}`, `/api/news-image/${news._id}`
AnimalImageUrl(id) == [url |-> "/api/image/", id |-> id]
NewsImageUrl(id) == [url |-> "/api/news-image/", id |-> id]

\* An image value that is a non-empty Base64 text (truthy in JavaScript).
HasImage(x) == "base64" \in DOMAIN x /\ x.base64 # <<>>

\* POST /animals up to the end of Animal.create and of the code after it:
\* without a file 400; the staged file is read, create is called, and both
\* the success path and the catch unlink the staged file.
PostAnimal(q, ok) ==
  /\ Accepting
  /\ q.kind = "animal"
  /\ LET r == nreq + 1
         d == NewAnimal(q, Len(animals) + 1, clock)
     IN
     /\ nreq' = r
     /\ req' = [req EXCEPT ![r] = q]
     /\ pc' = [pc EXCEPT ![r] = "done"]
     /\ IF ~q.file.present
        THEN /\ resp' = [resp EXCEPT ![r] = Response(400, ErrorBody("No image file provided"))]
             /\ UNCHANGED << animals, clock, doc, written >>
        ELSE IF ~ok \/ ~CastNumberOk(ToNumber(q.price))
        THEN /\ resp' = [resp EXCEPT ![r] =
                           IF ~ok THEN StoreError
                           ELSE Response(500, ErrorBody("Cast to Number failed"))]
             /\ UNCHANGED << animals, clock, doc, written >>
        ELSE /\ animals' = Append(animals, d)
             /\ clock' = clock + 1
             /\ written' = written \cup {r}
             /\ doc' = [doc EXCEPT ![r] = d]
             /\ resp' = [resp EXCEPT ![r] =
                           Response(200, [d EXCEPT !.image = AnimalImageUrl(d._id)])]
  /\ UNCHANGED << twinVars, token, chatId, subs, chats, uploads, tgfiles, tempPath, sent,
                  news, settings, ran >>

\* POST /news up to the end of News.create and of the code after it: an
\* uploaded file is read and unlinked before create is called.
PostNews(q, ok) ==
  /\ Accepting
  /\ q.kind = "news"
  /\ LET r == nreq + 1
         d == NewNews(q, Len(news) + 1, clock)
     IN
     /\ nreq' = r
     /\ req' = [req EXCEPT ![r] = q]
     /\ pc' = [pc EXCEPT ![r] = "done"]
     /\ IF ~ok
        THEN /\ resp' = [resp EXCEPT ![r] = StoreError]
             /\ UNCHANGED << news, clock, doc, written >>
        ELSE /\ news' = Append(news, d)
             /\ clock' = clock + 1
             /\ written' = written \cup {r}
             /\ doc' = [doc EXCEPT ![r] = d]
             /\ resp' = [resp EXCEPT ![r] =
                           Response(200, [d EXCEPT !.image =
                                            IF HasImage(d.image)
                                            THEN NewsImageUrl(d._id) ELSE Null])]
  /\ UNCHANGED << twinVars, token, chatId, subs, chats, uploads, tgfiles, tempPath, sent,
                  animals, settings, ran >>

\* GET /api/image/:id, /api/news-image/:id, /api/giftcard-image/:id on a
\* collection whose documents keep the image under `image` and its content
\* type under `type`: a failed lookup answers 500, no document or no image
\* 404, otherwise the decoded bytes with the stored type or image/jpeg.
ServeImage(coll, id, image, type, ok) ==
  IF ~ok \/ ~IsObjectId(id)
  THEN Response(500, ErrorBody("Failed to serve image"))
  ELSE IF ~Exists(coll, id) \/ ~HasImage(coll[id][image])
  THEN Response(404, ErrorBody("Image not found"))
  ELSE Response(200,
         [contentType |-> IF type \in DOMAIN coll[id] /\ coll[id][type] # ""
                          THEN coll[id][type] ELSE "image/jpeg",
          bytes |-> FromBase64(coll[id][image].base64)])

\* What the image endpoint of a record kind answers for an id.
ServeFor(kind, id, ok) ==
  CASE kind \in {"animal", "animalImage"} ->
         ServeImage(animals, id, "image", "imageType", ok)
    [] kind \in {"news", "newsImage"} ->
         ServeImage(news, id, "image", "imageType", ok)
    [] OTHER ->
         ServeImage(subs, id, "giftCardImage", "giftCardImageType", ok)

GetImage(q, ok) ==
  /\ Accepting
  /\ q.kind \in ImageKinds
  /\ LET r == nreq + 1 IN
     /\ nreq' = r
     /\ req' = [req EXCEPT ![r] = q]
     /\ pc' = [pc EXCEPT ![r] = "done"]
     /\ resp' = [resp EXCEPT ![r] = ServeFor(q.kind, q.id, ok)]
  /\ UNCHANGED << twinVars, siteVars, token, chatId, subs, chats, clock, doc,
                  uploads, tgfiles, tempPath, sent, written >>

(* ----------------------- POST /settings, POST /payments --------------- *)
SettingsRequests ==
  { [NoRequest EXCEPT !.kind = "settings", !.email = e] :
      e \in {Str("pay@x.com"), Str("gift@x.com")} }
PaymentRequests ==
  { [NoRequest EXCEPT !.kind = "payment", !.method = Str("PayPal")] }

\* Settings.create(req.body) / Settings.create({ payments: [] }); the store
\* mints a fresh _id at each creation.
NewSettings(email, id) == [_id |-> id, email |-> CastString(email), payments |-> <<>>]

\* settings.payments.push({ method, ... }) on the in-memory document.
PushPayment(d, method) ==
  [d EXCEPT !.payments = Append(@, [method |-> CastString(method)])]

\* The position of the stored Settings record with an _id, 0 without one.
SettingsAt(coll, id) ==
  IF \E i \in 1..Len(coll) : coll[i]._id = id
  THEN CHOOSE i \in 1..Len(coll) : coll[i]._id = id
  ELSE 0

\* POST /settings up to the end of Settings.deleteMany(): every stored
\* record is removed and Settings.create(req.body) is called.
PostSettings(q, ok) ==
  /\ Accepting
  /\ q.kind = "settings"
  /\ LET r == nreq + 1 IN
     /\ nreq' = r
     /\ req' = [req EXCEPT ![r] = q]
     /\ IF ~ok
        THEN /\ resp' = [resp EXCEPT ![r] = StoreError]
             /\ pc' = [pc EXCEPT ![r] = "done"]
             /\ settings' = settings
        ELSE /\ settings' = <<>>
             /\ pc' = [pc EXCEPT ![r] = "createSettings"]
             /\ resp' = resp
  /\ UNCHANGED << twinVars, token, chatId, subs, chats, clock, doc, uploads,
                  tgfiles, tempPath, sent, written, animals, news, ran >>

\* Settings.create(req.body) settles: the record is stored and answered.
SettingsCreate(r) ==
  /\ Ready
  /\ pc[r] = "createSettings"
  /\ LET d == NewSettings(req[r].email, clock) IN
     /\ settings' = Append(settings, d)
     /\ doc' = [doc EXCEPT ![r] = d]
     /\ resp' = [resp EXCEPT ![r] = Response(200, d)]
  /\ clock' = clock + 1
  /\ written' = written \cup {r}
  /\ pc' = [pc EXCEPT ![r] = "done"]
  /\ UNCHANGED << twinVars, token, chatId, subs, chats, nreq, req, uploads,
                  tgfiles, tempPath, sent, animals, news, ran >>

\* POST /payments up to the end of Settings.findOne() and of the code
\* after it: with a stored record the method is pushed in memory and save
\* is called; without one Settings.create({ payments: [] }) is called.
PostPayments(q, ok) ==
  /\ Accepting
  /\ q.kind = "payment"
  /\ LET r == nreq + 1 IN
     /\ nreq' = r
     /\ req' = [req EXCEPT ![r] = q]
     /\ IF ~ok
        THEN /\ resp' = [resp EXCEPT ![r] = StoreError]
             /\ pc' = [pc EXCEPT ![r] = "done"]
             /\ doc' = doc
        ELSE IF settings = <<>>
        THEN /\ pc' = [pc EXCEPT ![r] = "createEmpty"]
             /\ UNCHANGED << doc, resp >>
        ELSE /\ pc' = [pc EXCEPT ![r] = "savePayments"]
             /\ doc' = [doc EXCEPT ![r] = PushPayment(settings[1], q.method)]
             /\ resp' = resp
  /\ UNCHANGED << twinVars, siteVars, token, chatId, subs, chats, clock, uploads,
                  tgfiles, tempPath, sent, written >>

\* Settings.create({ payments: [] }) settles: the empty record is stored,
\* the method is pushed in memory and save is called.
SettingsCreateEmpty(r) ==
  /\ Ready
  /\ pc[r] = "createEmpty"
  /\ LET d == NewSettings(Undef, clock) IN
     /\ settings' = Append(settings, d)
     /\ doc' = [doc EXCEPT ![r] = PushPayment(d, req[r].method)]
  /\ clock' = clock + 1
  /\ pc' = [pc EXCEPT ![r] = "savePayments"]
  /\ UNCHANGED << twinVars, token, chatId, subs, chats, nreq, req, resp, uploads,
                  tgfiles, tempPath, sent, written, animals, news, ran >>

\* settings.save() settles: Mongoose sends $push of the pushed method for
\* the record's _id.  When that record has been deleted meanwhile the
\* update matches nothing: Mongoose 5.2 and later reject the save
\* (DocumentNotFoundError, strict = TRUE), earlier versions resolve it.
PaymentsSave(r, strict) ==
  /\ Ready
  /\ pc[r] = "savePayments"
  /\ LET i == SettingsAt(settings, doc[r]._id)
         m == doc[r].payments[Len(doc[r].payments)]
     IN
     /\ settings' = IF i = 0 THEN settings
                    ELSE [settings EXCEPT ![i].payments = Append(@, m)]
     /\ written' = IF i = 0 THEN written ELSE written \cup {r}
     /\ resp' = [resp EXCEPT ![r] =
                   IF i = 0 /\ strict THEN StoreError
                   ELSE Response(200, [payments |-> doc[r].payments])]
  /\ pc' = [pc EXCEPT ![r] = "done"]
  /\ UNCHANGED << twinVars, token, chatId, subs, chats, clock, nreq, req, doc,
                  uploads, tgfiles, tempPath, sent, animals, news, ran >>

\* The endpoints that store and serve images.
SiteNext ==
  \/ \E q \in SiteSubmitRequests, ok \in BOOLEAN : Submit(q, ok)
  \/ \E q \in AnimalRequests, ok \in BOOLEAN : PostAnimal(q, ok)
  \/ \E q \in NewsRequests, ok \in BOOLEAN : PostNews(q, ok)
  \/ \E q \in ImageRequests, ok \in BOOLEAN : GetImage(q, ok)
  \/ \E r \in Req, ok \in BOOLEAN : TransportSettles(r, ok)
  \/ \E r \in Req : Close(r)

SiteSpec == Init /\ [][SiteNext]_<< vars, twinVars >>

\* The endpoints that write the Settings collection.
SettingsNext ==
  \/ \E q \in SettingsRequests, ok \in BOOLEAN : PostSettings(q, ok)
  \/ \E q \in PaymentRequests, ok \in BOOLEAN : PostPayments(q, ok)
  \/ \E r \in Req : SettingsCreate(r)
  \/ \E r \in Req : SettingsCreateEmpty(r)
  \/ \E r \in Req, strict \in BOOLEAN : PaymentsSave(r, strict)
  \/ \E r \in Req : StoreFails(r)
  \/ \E r \in Req : Close(r)

SettingsSpec == Init /\ [][SettingsNext]_<< vars, twinVars >>

(* ------------------ two deployments, same requests -------------------- *)
\* A handler run from arrival to response on deployment D, with the store
\* healthy; a transport call that fails is caught inside sendToTelegram.
Answer(D, subs2, chats2, clock2, r) ==
  [D EXCEPT !.subs = subs2, !.chats = chats2, !.clock = clock2, !.resp = r]

RunSubmit(D, q) ==
  LET d == NewSubmission(q, Len(D.subs) + 1, D.clock) IN
  IF MissingRequiredFields(q)
  THEN [D EXCEPT !.resp = Response(400, ErrorBody("Missing required fields"))]
  ELSE IF ~CastNumberOk(ParseFloat(q.amount))
  THEN [D EXCEPT !.resp = Response(500, ErrorBody("Cast to Number failed"))]
  ELSE Answer(D, Append(D.subs, d), D.chats, D.clock + 1, Response(200, SubmitBody(d)))

RunPut(D, q, set) ==
  IF ~IsObjectId(q.id)
  THEN [D EXCEPT !.resp = Response(500, ErrorBody("Cast to ObjectId failed"))]
  ELSE IF ~Exists(D.subs, q.id)
  THEN [D EXCEPT !.resp = Response(404, ErrorBody("Submission not found"))]
  ELSE LET subs2 == FindByIdAndUpdate(D.subs, q.id, set, D.clock) IN
       Answer(D, subs2, D.chats, D.clock + 1,
              IF ThrowsToUpperCase(q.status)
              THEN Response(500, ErrorBody("TypeError"))
              ELSE Response(200, subs2[q.id]))

\* The part of POST /chat and POST /chat/:id/reply after the lookup: push,
\* save, and the notification inside `if (bot && TELEGRAM_CHAT_ID)`.
RunSave(D, chats1, clock1, d, text) ==
  Answer(D, D.subs, Save(chats1, d, clock1), clock1 + 1,
         IF D.transport # "unconfigured" /\ ThrowsSubstring(text)
         THEN Response(500, ErrorBody("TypeError"))
         ELSE Response(200, Saved(d, clock1)))

RunChat(D, q) ==
  LET i == FindOne(D.chats, CastString(q.email))
      n == NewChat(q, Len(D.chats) + 1, D.clock)
  IN  IF i = 0
      THEN RunSave(D, Append(D.chats, n), D.clock + 1,
                   Push(n, "user", q.message, D.clock), CastString(q.message))
      ELSE RunSave(D, D.chats, D.clock,
                   Push(D.chats[i], "user", q.message, D.clock), CastString(q.message))

RunReply(D, q) ==
  IF ~IsObjectId(q.id)
  THEN [D EXCEPT !.resp = Response(500, ErrorBody("Cast to ObjectId failed"))]
  ELSE IF ~Exists(D.chats, q.id)
  THEN [D EXCEPT !.resp = Response(404, ErrorBody("Chat not found"))]
  ELSE RunSave(D, D.chats, D.clock,
               Push(D.chats[q.id], "admin", q.message, D.clock), q.message)

TwinInit ==
  /\ token = FALSE /\ chatId = FALSE
  /\ twin \in [Copies -> {Deployment(t) : t \in TransportStates}]
  /\ twinN = 0
  /\ subs = <<>> /\ chats = <<>> /\ clock = 1 /\ nreq = 0
  /\ req = [r \in Req |-> NoRequest]
  /\ pc = [r \in Req |-> "idle"]
  /\ doc = [r \in Req |-> NoDoc]
  /\ resp = [r \in Req |-> NoResp]
  /\ uploads = {} /\ tgfiles = {} /\ tempPath = [r \in Req |-> 0] /\ sent = {} /\ written = {}
  /\ animals = <<>> /\ news = <<>> /\ settings = <<>>
  /\ ran = [text |-> <<>>, outcomes |-> {}]

TwinSubmit(q) ==
  /\ twinN < MaxReq
  /\ twinN' = twinN + 1
  /\ twin' = [c \in Copies |-> RunSubmit(twin[c], q)]
  /\ UNCHANGED vars

TwinPut(q, set) ==
  /\ twinN < MaxReq
  /\ twinN' = twinN + 1
  /\ twin' = [c \in Copies |-> RunPut(twin[c], q, set)]
  /\ UNCHANGED vars

TwinChat(q) ==
  /\ twinN < MaxReq
  /\ twinN' = twinN + 1
  /\ twin' = [c \in Copies |-> RunChat(twin[c], q)]
  /\ UNCHANGED vars

TwinReply(q) ==
  /\ twinN < MaxReq
  /\ twinN' = twinN + 1
  /\ twin' = [c \in Copies |-> RunReply(twin[c], q)]
  /\ UNCHANGED vars

TwinNext ==
  \/ \E q \in SubmitRequests : TwinSubmit(q)
  \/ \E q \in PutRequests : \E set \in StatusUpdates(q.status) : TwinPut(q, set)
  \/ \E q \in ChatRequests : TwinChat(q)
  \/ \E q \in ReplyRequests : TwinReply(q)

TwinSpec == TwinInit /\ [][TwinNext]_<< vars, twinVars >>

(* ------------------------------ claims -------------------------------- *)
\* The step in which request r arrives and runs to its first await.
Arrives(r) == pc[r] = "idle" /\ pc'[r] # "idle"

Terminal == {Str("verified"), Str("rejected")}

\* C1: once a submission's status is verified or rejected, no step changes
\* it again.
C1_TerminalStatusIsFinal ==
  [][\A i \in 1..Len(subs) :
       subs[i].status \in Terminal => subs'[i].status = subs[i].status]_<< vars, twinVars >>

\* C2: every stored submission has a status among pending, verified,
\* rejected.
C2_StatusInEnum == \A i \in 1..Len(subs) : subs[i].status \in StatusEnum

\* C5: every stored submission has an amount greater than zero (a submit
\* whose amount text is no positive number stores nothing).
C5_AmountPositive == \A i \in 1..Len(subs) : subs[i].amount > 0

\* C7: an updateStatus whose id resolves to no submission is answered 404
\* (not-found) unless the store itself failed, changes no stored record and
\* notifies nobody.
C7_UnknownIdIsNotFound ==
  \A r \in Req :
    (pc[r] = "done" /\ req[r].kind = "put" /\ ~Exists(subs, req[r].id))
      => /\ resp[r].code = 404 \/ resp[r] = StoreError
         /\ r \notin written
         /\ \A n \in sent : n.req # r

\* The fields submit requires, as the request carries them.
AllPresent(q) ==
  q.name # Undef /\ q.email # Undef /\ q.amount # <<>> /\ q.file.present

\* The store content after the step holds exactly one more submission than
\* before, the old ones untouched, the new one pending and listed as
\* pending by GET /giftcard-submissions.
OneNewPending ==
  /\ Len(subs') = Len(subs) + 1
  /\ SubSeq(subs', 1, Len(subs)) = subs
  /\ subs'[Len(subs')].status = Str("pending")
  /\ \E j \in 1..Len(subs') :
       /\ ListSubmissions(subs')[j]._id = subs'[Len(subs')]._id
       /\ ListSubmissions(subs')[j].status = Str("pending")

\* C3 as claimed: every submit with name, email, amount and proof image
\* present, which the store does not reject, stores exactly one new pending
\* submission that the list returns as pending.
C3_EveryCompleteSubmitPersists ==
  [][\A r \in Req :
       (Arrives(r) /\ req'[r].kind = "submit" /\ AllPresent(req'[r])
          /\ resp'[r] # StoreError)
         => OneNewPending]_<< vars, twinVars >>

\* C3 amended: a submit with name, email, amount and proof image present
\* either is answered 500 and stores nothing (the store rejected the write,
\* or the amount text parses to no number), or stores exactly one new
\* pending submission that the list returns as pending; the second happens
\* whenever the amount text parses to a number and the store accepts.
C3_CompleteSubmitPersistsOrFails ==
  [][\A r \in Req :
       (Arrives(r) /\ req'[r].kind = "submit" /\ AllPresent(req'[r]))
         => IF resp'[r] = StoreError \/ ParseFloat(req'[r].amount).nan
            THEN resp'[r].code = 500 /\ subs' = subs
            ELSE OneNewPending /\ r \in written']_<< vars, twinVars >>

C3_Witness ==
  \E r \in Req :
    /\ req[r].kind = "submit" /\ AllPresent(req[r])
    /\ pc[r] = "done" /\ resp[r].code = 200
    /\ \E j \in 1..Len(subs) :
         /\ ListSubmissions(subs)[j]._id = resp[r].body.submission._id
         /\ ListSubmissions(subs)[j].status = Str("pending")

\* C4: a submit with name, email, amount or the proof image absent is
\* answered 400, stores nothing and notifies nobody.
C4_MissingFieldRejected ==
  [][\A r \in Req :
       (Arrives(r) /\ req'[r].kind = "submit" /\ ~AllPresent(req'[r]))
         => /\ pc'[r] = "done"
            /\ resp'[r].code = 400
            /\ subs' = subs /\ chats' = chats
            /\ sent' = sent /\ written' = written]_<< vars, twinVars >>

C4_Witness ==
  \E r \in Req :
    /\ req[r].kind = "submit" /\ ~req[r].file.present
    /\ pc[r] = "done" /\ resp[r].code = 400

\* The step in which a PUT stores a string status s for an existing
\* submission.
UpdatesStatus(r) ==
  /\ Arrives(r) /\ req'[r].kind = "put"
  /\ IsString(req'[r].status)
  /\ Exists(subs, req'[r].id)
  /\ r \in written'

\* C6 as claimed: updateStatus(id, s) on an existing submission sets its
\* status to s and changes nothing else in the store.
C6_OnlyStatusChanges ==
  [][\A r \in Req :
       UpdatesStatus(r)
         => /\ subs' = [subs EXCEPT ![req'[r].id].status = req'[r].status]
            /\ chats' = chats]_<< vars, twinVars >>

\* C6 amended: updateStatus(id, s) on an existing submission sets its
\* status to s and refreshes its updatedAt; every other field of that
\* submission, every other submission and every chat stay as they were.
C6_StatusAndUpdatedAtChange ==
  [][\A r \in Req :
       UpdatesStatus(r)
         => LET id == req'[r].id IN
            /\ Len(subs') = Len(subs)
            /\ subs'[id].status = req'[r].status
            /\ subs'[id].updatedAt = clock
            /\ \A f \in DOMAIN subs[id] \ {"status", "updatedAt"} :
                 subs'[id][f] = subs[id][f]
            /\ \A i \in 1..Len(subs) : i # id => subs'[i] = subs[i]
            /\ chats' = chats]_<< vars, twinVars >>

C6_Witness ==
  \E r \in Req :
    /\ req[r].kind = "put" /\ pc[r] = "done" /\ resp[r].code = 200
    /\ Len(subs) >= 2
    /\ subs[req[r].id].status = req[r].status
    /\ subs[req[r].id].updatedAt > subs[req[r].id].createdAt

\* C9: every notification was dispatched by a request whose store write
\* had been acknowledged, and the record it describes is in the store; a
\* request whose write failed has dispatched none.
C9_NotifyAfterWrite ==
  \A n \in sent :
    /\ n.req \in written
    /\ Exists(IF n.kind \in {"submission", "status"} THEN subs ELSE chats, n.id)
    /\ n.kind \in {"chat", "reply"} => chats[n.id].messages # <<>>

C9_Witness ==
  \E n \in sent : n.via = "telegram" /\ n.kind = "reply" /\ pc[n.req] = "send"

\* C8: two deployments that differ only in the state of the notification
\* transport answer every request of the same sequence alike and hold the
\* same stored state.
C8_TransportIndependent ==
  /\ twin[1].resp = twin[2].resp
  /\ twin[1].subs = twin[2].subs
  /\ twin[1].chats = twin[2].chats

\* C10: every submit whose submission has been stored is eventually
\* answered, whatever becomes of the notification.
C10_PersistedSubmitIsAnswered ==
  \A r \in Req :
    (r \in written /\ req[r].kind = "submit") ~> (pc[r] \in {"done", "closed"})

\* C11: no two stored conversations have the same participant email,
\* whatever the interleaving of the postMessage requests.
C11_OneChatPerEmail ==
  \A i, j \in 1..Len(chats) : chats[i].email = chats[j].email => i = j

\* The step in which the chat.save() of request r is acknowledged.
SaveLands(r) == pc[r] = "save" /\ r \in written'

\* The stored conversation id gains exactly one message, from sender with
\* the given text, at its end; its earlier messages and every other
\* conversation stay as they were.
AppendsOne(id, sender, text) ==
  LET old == chats[id].messages
      new == chats'[id].messages
  IN  /\ Len(chats') = Len(chats)
      /\ Len(new) = Len(old) + 1
      /\ SubSeq(new, 1, Len(old)) = old
      /\ new[Len(new)].sender = sender
      /\ new[Len(new)].text = CastString(text)
      /\ \A i \in 1..Len(chats) : i # id => chats'[i] = chats[i]

\* C12: a postMessage whose lookup found no conversation for the email
\* creates exactly one (empty, for that email), one whose lookup found a
\* conversation creates none; the save of a postMessage appends exactly one
\* message with sender user and the posted text to the end of a
\* conversation of that email and changes nothing else.
C12_PostMessageAppendsOne ==
  [][/\ Len(chats') # Len(chats)
          => \E r \in Req : pc[r] = "createChat" /\ pc'[r] = "save"
     /\ \A r \in Req :
       /\ (Arrives(r) /\ req'[r].kind = "chat")
            => /\ chats' = chats
               /\ pc'[r] = "createChat"
                    => FindOne(chats, CastString(req'[r].email)) = 0
               /\ pc'[r] = "save"
                    => FindOne(chats, CastString(req'[r].email)) # 0
       /\ (pc[r] = "createChat" /\ pc'[r] = "save")
            => /\ Len(chats') = Len(chats) + 1
               /\ SubSeq(chats', 1, Len(chats)) = chats
               /\ chats'[Len(chats')].email = CastString(req[r].email)
               /\ chats'[Len(chats')].messages = <<>>
       /\ (SaveLands(r) /\ req[r].kind = "chat")
            => /\ chats[doc[r]._id].email = CastString(req[r].email)
               /\ AppendsOne(doc[r]._id, "user", req[r].message)
    ]_<< vars, twinVars >>

C12_Witness ==
  \E r \in Req :
    /\ req[r].kind = "chat" /\ pc[r] = "done" /\ resp[r].code = 200
    /\ Len(chats) = 1
    /\ Len(chats[1].messages) = 2
    /\ \A k \in 1..2 : chats[1].messages[k].sender = "user"

\* C13: an admin reply, over HTTP or by the bot's /reply, on an identifier
\* that resolves to no conversation is answered not-found (404, or the
\* bot's "Chat not found."; the bot words a failed lookup and a failed store
\* alike) unless the store failed, and writes nothing; on an existing
\* conversation its save appends exactly one admin message to that
\* conversation and to no other.
C13_ReplyNotFoundOrAppendsOne ==
  [][\A r \in Req :
       /\ (Arrives(r) /\ req'[r].kind \in {"reply", "botreply"}
              /\ ~Exists(chats, req'[r].id)
              /\ (req'[r].kind = "botreply" => Truthy(req'[r].message)))
            => /\ pc'[r] = "done"
               /\ IF req'[r].kind = "reply"
                  THEN resp'[r].code = 404 \/ resp'[r] = StoreError
                  ELSE resp'[r] \in {BotSays("Chat not found."),
                                     BotSays("Error sending reply.")}
               /\ chats' = chats
       /\ (SaveLands(r) /\ req[r].kind \in {"reply", "botreply"})
            => /\ doc[r]._id = req[r].id
               /\ AppendsOne(req[r].id, "admin", req[r].message)
    ]_<< vars, twinVars >>

\* C14: while the bot token or the admin chat id is not configured, no bot
\* command is handled and nothing is handed to the transport.
C14_UnconfiguredIsInert ==
  ~Configured
    => /\ \A r \in Req : req[r].kind # "botreply"
       /\ \A n \in sent : n.via = "log"

\* C15: once a request has been answered, the upload that multer staged
\* for it is no longer on disk.
C15_NoStagedFileAfterResponse ==
  \A r \in Req : pc[r] \in {"done", "closed"} => r \notin uploads

\* An image value that is a reference to an image endpoint.
IsImageRef(x) == "url" \in DOMAIN x

\* C17: the list payload is ordered newest first and holds an image
\* reference, never the stored Base64 text, for every submission; so does
\* the submission that submit and updateStatus answer with.
C17_PayloadsCarryImageRefs ==
  /\ LET l == ListSubmissions(subs) IN
       /\ \A j, k \in 1..Len(l) : j < k => l[j].createdAt >= l[k].createdAt
       /\ \A j \in 1..Len(l) : IsImageRef(l[j].giftCardImage)
  /\ \A r \in Req :
       (pc[r] = "done" /\ resp[r].code = 200)
         => /\ req[r].kind = "submit"
                 => IsImageRef(resp[r].body.submission.giftCardImage)
            /\ req[r].kind = "put" => IsImageRef(resp[r].body.giftCardImage)

\* C16: for every record that submit, POST /animals or POST /news stored
\* with an uploaded image, the record's image endpoint answers 200 with
\* exactly the uploaded bytes and the uploaded content type.
C16_ImageRoundTrip ==
  \A r \in Req :
    (pc[r] = "done" /\ req[r].kind \in {"submit", "animal", "news"}
       /\ resp[r].code = 200 /\ req[r].file.present)
      => ServeFor(req[r].kind, doc[r]._id, TRUE)
           = Response(200, [contentType |-> req[r].file.mimetype,
                            bytes |-> req[r].file.bytes])

\* C19: at most one Settings record is stored, whatever the interleaving
\* of POST /settings and POST /payments; and when the create of a POST
\* /settings lands with no other request in flight, the stored settings
\* are the posted body.
C19_SettingsIsSingleton ==
  [][/\ Len(settings') <= 1
     /\ \A r \in Req :
          (pc[r] = "createSettings" /\ r \in written' /\ InFlight = {r})
            => /\ settings'[Len(settings')].email = CastString(req[r].email)
               /\ settings'[Len(settings')].payments = <<>>
    ]_<< vars, twinVars >>

\* The save of request r lands on a conversation that has gained a message
\* since r read it: two writers of the same conversation have overlapped.
StaleSave(r) ==
  /\ SaveLands(r)
  /\ Len(chats[doc[r]._id].messages) >= Len(doc[r].messages)

\* C18 as claimed: when two writers of one conversation overlap, the later
\* save stores its own copy of the messages, so that the message the other
\* writer appended is gone (last write wins).
C18_LastWriteWins ==
  [][\A r \in Req :
       StaleSave(r) => chats'[doc[r]._id].messages = doc[r].messages
    ]_<< vars, twinVars >>

\* C18 amended: when two writers of one conversation overlap, the later
\* save keeps every stored message, the other writer's included, and adds
\* its own message after them: both messages are stored.
C18_OverlappingAppendsBothKept ==
  [][\A r \in Req :
       StaleSave(r)
         => LET old == chats[doc[r]._id].messages
                new == chats'[doc[r]._id].messages
                own == doc[r].messages[Len(doc[r].messages)]
            IN  /\ Len(new) = Len(old) + 1
                /\ SubSeq(new, 1, Len(old)) = old
                /\ new[Len(new)] = own
                /\ Len(new) > Len(doc[r].messages)
    ]_<< vars, twinVars >>

\* An admin reply and a postMessage to one conversation have overlapped and
\* both were answered 200: the reply's response shows the copy it read
\* plus its own message, the store holds one message more.
C18_Witness ==
  \E r \in Req :
    /\ ~Configured
    /\ req[r].kind = "reply" /\ pc[r] = "done" /\ resp[r].code = 200
    /\ LET stored == chats[req[r].id].messages IN
       /\ Len(stored) = Len(resp[r].body.messages) + 1
       /\ stored[Len(stored)].sender = "admin"
       /\ stored[Len(stored) - 1].sender = "user"
       /\ stored[Len(stored) - 1] \notin
            {resp[r].body.messages[k] : k \in 1..Len(resp[r].body.messages)}

\* C20: an inbound bot text invokes at most one callback, and a text that
\* begins with /reply and has arguments invokes the reply callback alone,
\* whatever its words are.
C20_OneCallbackPerText ==
  /\ Cardinality(ran.outcomes) <= 1
  /\ (Len(ran.text) > 1 /\ ran.text[1] = "/reply")
       => {o.callback : o \in ran.outcomes} = {"reply"}

\* C21: an updateStatus, postMessage or postAdminReply that has persisted
\* a write is answered 200 with the persisted record; one that is answered
\* with an error status has written nothing.
C21_ErrorMeansNoWrite ==
  \A r \in Req :
    (pc[r] = "done" /\ req[r].kind \in {"put", "chat", "reply"})
      => /\ resp[r].code >= 400 => r \notin written
         /\ r \in written
              => resp[r].code = 200 /\ resp[r].body._id = doc[r]._id


\* C22: the temp file sendToTelegram writes for an image is gone when
\* sendToTelegram returns, whether the send succeeded or failed; while a
\* notification is being sent the file at its tempPath holds its own image,
\* and the file it removes is its own.
OwnFile(r, f) == f.path = tempPath[r] /\ f.image = doc[r]._id
C22_TempFileOwnAndRemoved ==
  /\ [](\A r \in Req :
          (pc[r] = "send" /\ tempPath[r] # 0)
            => \A f \in tgfiles : f.path = tempPath[r] => OwnFile(r, f))
  /\ [][\A r \in Req :
          (pc[r] = "send" /\ pc'[r] = "done" /\ tempPath[r] # 0)
            => /\ \A f \in tgfiles' : f.path # tempPath[r]
               /\ \A f \in tgfiles \ tgfiles' : OwnFile(r, f)]_vars

====
